---- MODULE Spec2Model ----
(***************************************************************************)
(* Model of the match-computation pipeline of matching_system:             *)
(* process_match_task and _apply_diversity (celery_tasks.py) together with *)
(* the profile enrichment helpers of AIService (ai_services.py).           *)
(* Scores are integers in thousandths (0.87 is 870).                       *)
(***************************************************************************)
EXTENDS Integers, Sequences, FiniteSets, TLC

VARIABLES
  pc,                \* position of the task between two collaborator calls
  task_id,           \* process_match_task.request.id
  user_data,         \* the task's argument
  profile,           \* (sanitized_bio, enriched_tags, pii_removed) and embedding_text
  user_vector,       \* the embedding, <<>> before it exists
  communities,       \* what filter_communities_by_location returned
  vector_results,    \* what vector_search returned
  merged,            \* enriched_results as the merge loop leaves it
  enriched_results,  \* enriched_results after _apply_diversity
  result,            \* the MatchResult, once constructed
  ret,               \* the payload the task returned
  calls,             \* collaborators invoked so far, in order
  cached,            \* argument of the last successful set_user_vector
  published,         \* arguments of the successful publish_match_result calls
  raised             \* the collaborator whose exception ended the run, or "none"

vars == <<pc, task_id, user_data, profile, user_vector, communities,
          vector_results, merged, enriched_results, result, ret,
          calls, cached, published, raised>>

(* ------------------------------ bounds --------------------------------- *)
NumCommunities == 6
MaxElapsedMs == 1
MaxDivLen == 6
MergeIds == 3
MaxVec == 3
ScoreStep == 10

(* ------------------------- program constants --------------------------- *)
TopK == 10
SoulmateThreshold == 870
FallbackThreshold == 550
MaxMatches == 5
DiversityMinLen == 4

MatchTier == [SOULMATE |-> "soulmate", EXPLORER |-> "explorer", FALLBACK |-> "fallback"]

MergeFailedMessage == "No matching communities after merge"

(* ------------------------- environment inputs -------------------------- *)
TaskIds == {"task-1", "task-2"}
ExcMessages == {"", "connection refused"}
Vectors == {<<1, 0>>, <<0, 1>>}
TopScores == {549, 550, 700, 870, 871}
Categories == {"tech", "art", "music"}

EmailTokens == {"a@b.co"}
PhoneTokens == {"555-123-4567"}

GoodProfile ==
  [user_id |-> "u1", bio |-> <<"hello", "a@b.co", "555-123-4567">>,
   interest_tags |-> <<"chess">>, city |-> "Austin", timezone |-> "CST"]
NoBioProfile ==
  [user_id |-> "u1", interest_tags |-> <<"chess">>, city |-> "Austin", timezone |-> "CST"]
NoCityProfile ==
  [user_id |-> "u1", bio |-> <<"hello">>, interest_tags |-> <<"chess">>, timezone |-> "CST"]
Profiles == {GoodProfile, NoBioProfile, NoCityProfile}

Category(id) ==
  IF id % 4 = 0 THEN "art" ELSE IF id % 6 = 0 THEN "music" ELSE "tech"

Community(id) ==
  [community_id |-> id, community_name |-> ToString(id), category |-> Category(id),
   member_count |-> 10 * id, recent_activity |-> id]

PopularCommunity(id) ==
  IF id % 2 = 0
  THEN Community(id)
  ELSE [community_id |-> id, community_name |-> ToString(id), category |-> Category(id),
        member_count |-> 10 * id]

Ascending(a, b) == [k \in 1..(b - a + 1) |-> a + k - 1]
Descending(a, b) == [k \in 1..(b - a + 1) |-> b - k + 1]

CandidateLists == {[k \in 1..n |-> Community(k)] : n \in 0..NumCommunities}
PopularLists == {[k \in 1..n |-> PopularCommunity(k)] : n \in 0..NumCommunities}
RankedIdLists ==
  {<<>>} \cup {Ascending(a, b) : a \in 1..NumCommunities, b \in 1..NumCommunities}
         \cup {Descending(a, b) : a \in 1..NumCommunities, b \in 1..NumCommunities}
VectorMatches(ids, top) ==
  [k \in 1..Len(ids) |-> [community_id |-> ids[k], match_score |-> top - ScoreStep * (k - 1)]]

(* --------------------------- python helpers ---------------------------- *)
Min(S) == CHOOSE x \in S : \A y \in S : x <= y
Max(S) == CHOOSE x \in S : \A y \in S : x >= y

\* list.pop(i) and list.insert(i, x) with Python's 0-based index
ListPop(s, i) == [k \in 1..(Len(s) - 1) |-> IF k <= i THEN s[k] ELSE s[k + 1]]
ListInsert(s, i, x) ==
  [k \in 1..(Len(s) + 1) |-> IF k <= i THEN s[k] ELSE IF k = i + 1 THEN x ELSE s[k - 1]]
\* s[:n]
Slice(s, n) == [k \in 1..(IF Len(s) < n THEN Len(s) ELSE n) |-> s[k]]
\* d.get(key, default)
Get(d, key, default) == IF key \in DOMAIN d THEN d[key] ELSE default
\* first key of keys (in evaluation order) that d lacks, as str(KeyError)
MissingKeys(d, keys) == {k \in 1..Len(keys) : keys[k] \notin DOMAIN d}
KeyErrorMessage(d, keys) == "'" \o keys[Min(MissingKeys(d, keys))] \o "'"

(* ----------------------------- AIService ------------------------------- *)
BasicPiiRemoval(text) ==
  [k \in 1..Len(text) |->
     IF text[k] \in EmailTokens THEN "[email removed]"
     ELSE IF text[k] \in PhoneTokens THEN "[phone removed]"
     ELSE text[k]]

SanitizeFallback(bio, interest_tags) ==
  [sanitized_bio |-> BasicPiiRemoval(bio), enriched_tags |-> interest_tags,
   pii_removed |-> FALSE]

SanitizeModel(bio, interest_tags) ==
  [sanitized_bio |-> <<"hello">>, enriched_tags |-> Append(interest_tags, "games"),
   pii_removed |-> TRUE]

CreateEmbeddingPayload(bio, tags) == [Bio |-> bio, Interests |-> tags]

\* lines 64-72 of the task: the enriched profile and its embedding text
EnrichedProfile(sanitized) ==
  [sanitized_bio |-> sanitized.sanitized_bio, enriched_tags |-> sanitized.enriched_tags,
   pii_removed |-> sanitized.pii_removed,
   embedding_text |-> CreateEmbeddingPayload(sanitized.sanitized_bio, sanitized.enriched_tags)]

(* ------------------------------ payloads ------------------------------- *)
NoResult == [status |-> "processing"]
NoProfile == [sanitized_bio |-> <<>>, enriched_tags |-> <<>>, pii_removed |-> FALSE]

FailurePayload(tid, msg) == [task_id |-> tid, status |-> "failed", error |-> msg]

CommunityMatch(cid, name, cat, score, members, activity) ==
  [community_id |-> cid, community_name |-> name, category |-> cat,
   match_score |-> score, member_count |-> members, recent_activity |-> activity]

MatchResult(tid, uid, tier, matches, ms) ==
  [task_id |-> tid, user_id |-> uid, tier |-> tier, matches |-> matches,
   processing_time_ms |-> ms]

(* ------------------------- merge (lines 119-133) ----------------------- *)
CommunityMap(cs) ==
  [cid \in {cs[k].community_id : k \in 1..Len(cs)} |->
     cs[Max({k \in 1..Len(cs) : cs[k].community_id = cid})]]

\* variant: matches are put in front of the list instead of appended
RECURSIVE MergeLoopPrepend(_, _, _)
MergeLoopPrepend(vs, community_map, acc) ==
  IF vs = <<>> THEN acc
  ELSE LET v == Head(vs)
           cid == v.community_id
       IN IF cid \in DOMAIN community_map
          THEN LET sql_data == community_map[cid]
               IN MergeLoopPrepend(Tail(vs), community_map,
                    <<[community_id |-> cid,
                       community_name |-> sql_data.community_name,
                       category |-> sql_data.category,
                       match_score |-> v.match_score,
                       member_count |-> sql_data.member_count,
                       recent_activity |-> sql_data.recent_activity]>> \o acc)
          ELSE MergeLoopPrepend(Tail(vs), community_map, acc)

RECURSIVE MergeLoop(_, _, _)
MergeLoop(vs, community_map, acc) ==
  IF vs = <<>> THEN acc
  ELSE LET v == Head(vs)
           cid == v.community_id
       IN IF cid \in DOMAIN community_map
          THEN LET sql_data == community_map[cid]
               IN MergeLoop(Tail(vs), community_map,
                    Append(acc, [community_id |-> cid,
                                 community_name |-> sql_data.community_name,
                                 category |-> sql_data.category,
                                 match_score |-> v.match_score,
                                 member_count |-> sql_data.member_count,
                                 recent_activity |-> sql_data.recent_activity]))
          ELSE MergeLoop(Tail(vs), community_map, acc)

\* variant: an id the candidate map lacks is kept with placeholder fields
MergeKeepsUnknown(vs, cs) ==
  [k \in 1..Len(vs) |->
     LET cid == vs[k].community_id
         sql_data == IF cid \in DOMAIN CommunityMap(cs) THEN CommunityMap(cs)[cid]
                     ELSE [community_name |-> "", category |-> "", member_count |-> 0,
                           recent_activity |-> 0]
     IN [community_id |-> cid, community_name |-> sql_data.community_name,
         category |-> sql_data.category, match_score |-> vs[k].match_score,
         member_count |-> sql_data.member_count,
         recent_activity |-> sql_data.recent_activity]]

Merge(vs, cs) == MergeLoop(vs, CommunityMap(cs), <<>>)

(* ------------------------- _apply_diversity ---------------------------- *)
\* variant: the scan does not stop at the first differing entry
ApplyDiversityLast(matches) ==
  IF Len(matches) < 4 THEN matches
  ELSE LET cats == {matches[k].category : k \in 1..3}
           differing == {i \in 3..(Len(matches) - 1) : matches[i + 1].category \notin cats}
       IN IF Cardinality(cats) = 1 /\ differing # {}
          THEN ListInsert(ListPop(matches, Max(differing)), 2, matches[Max(differing) + 1])
          ELSE matches

ApplyDiversity(matches) ==
  IF Len(matches) < DiversityMinLen THEN matches
  ELSE LET top_categories == [k \in 1..3 |-> matches[k].category]
           category_counts == {top_categories[k] : k \in 1..3}
       IN IF Cardinality(category_counts) = 1
          THEN LET dominant == top_categories[1]
                   differing == {i \in 3..(Len(matches) - 1) : matches[i + 1].category # dominant}
               IN IF differing = {} THEN matches
                  ELSE LET i == Min(differing)
                       IN ListInsert(ListPop(matches, i), 2, matches[i + 1])
          ELSE matches

(* --------------------------- tier (146-151) ---------------------------- *)
\* variant: the thresholds are inclusive
TierOfInclusive(top_score) ==
  IF top_score >= SoulmateThreshold THEN MatchTier.SOULMATE
  ELSE IF top_score <= FallbackThreshold THEN MatchTier.FALLBACK
  ELSE MatchTier.EXPLORER

TierOf(top_score) ==
  IF top_score > SoulmateThreshold THEN MatchTier.SOULMATE
  ELSE IF top_score < FallbackThreshold THEN MatchTier.FALLBACK
  ELSE MatchTier.EXPLORER

\* variant: the popularity figure is used as the score
FallbackMatchesScored(popular) ==
  [k \in 1..Len(popular) |->
     CommunityMatch(popular[k].community_id, popular[k].community_name,
                    popular[k].category, popular[k].member_count, popular[k].member_count,
                    Get(popular[k], "recent_activity", 0))]

FallbackMatches(popular) ==
  [k \in 1..Len(popular) |->
     CommunityMatch(popular[k].community_id, popular[k].community_name,
                    popular[k].category, 0, popular[k].member_count,
                    Get(popular[k], "recent_activity", 0))]

FinalMatches(enriched) == Slice(enriched, MaxMatches)

(* ----------------------- outer except (172-178) ------------------------ *)
\* variant: the handler lets the exception through, the task returns nothing
CaughtReraised(who, msg) ==
  /\ pc' = "done"
  /\ ret' = NoResult
  /\ raised' = who

\* the task returns the failure payload built from the caught exception
Caught(who, msg) ==
  /\ pc' = "done"
  /\ ret' = FailurePayload(task_id, msg)
  /\ raised' = who

(* ------------------------------- Init ---------------------------------- *)
Idle ==
  /\ profile = NoProfile
  /\ user_vector = <<>>
  /\ communities = <<>>
  /\ vector_results = <<>>
  /\ merged = <<>>
  /\ enriched_results = <<>>
  /\ result = NoResult
  /\ ret = NoResult
  /\ calls = <<>>
  /\ cached = <<>>
  /\ published = <<>>
  /\ raised = "none"

Init ==
  /\ pc = "sanitize"
  /\ task_id \in TaskIds
  /\ user_data \in Profiles
  /\ Idle

(* ------------------------------ actions -------------------------------- *)
\* lines 64-72: sanitize_and_enrich_profile never raises past its own except
Sanitize ==
  /\ pc = "sanitize"
  /\ IF MissingKeys(user_data, <<"bio", "interest_tags">>) # {}
     THEN /\ Caught("user_data", KeyErrorMessage(user_data, <<"bio", "interest_tags">>))
          /\ UNCHANGED <<profile, calls>>
     ELSE /\ \E ok \in BOOLEAN :
               profile' = EnrichedProfile(
                            IF ok THEN SanitizeModel(user_data.bio, user_data.interest_tags)
                            ELSE SanitizeFallback(user_data.bio, user_data.interest_tags))
          /\ calls' = Append(calls, "sanitize")
          /\ pc' = "embed"
          /\ UNCHANGED <<ret, raised>>
  /\ UNCHANGED <<task_id, user_data, user_vector, communities, vector_results, merged,
                 enriched_results, result, cached, published>>

\* line 74
Embed ==
  /\ pc = "embed"
  /\ calls' = Append(calls, "embed")
  /\ \/ /\ \E v \in Vectors : user_vector' = v
        /\ pc' = "cache"
        /\ UNCHANGED <<ret, raised>>
     \/ /\ \E msg \in ExcMessages : Caught("embed", msg)
        /\ UNCHANGED user_vector
  /\ UNCHANGED <<task_id, user_data, profile, communities, vector_results, merged,
                 enriched_results, result, cached, published>>

\* line 76
CacheVector ==
  /\ pc = "cache"
  /\ calls' = Append(calls, "cache_vector")
  /\ \/ /\ cached' = <<user_data.user_id, user_vector>>
        /\ pc' = "filter"
        /\ UNCHANGED <<ret, raised>>
     \/ /\ \E msg \in ExcMessages : Caught("cache_vector", msg)
        /\ UNCHANGED cached
  /\ UNCHANGED <<task_id, user_data, profile, user_vector, communities, vector_results,
                 merged, enriched_results, result, published>>

\* lines 78-85
FilterByLocation ==
  /\ pc = "filter"
  /\ IF MissingKeys(user_data, <<"city", "timezone">>) # {}
     THEN /\ Caught("user_data", KeyErrorMessage(user_data, <<"city", "timezone">>))
          /\ UNCHANGED <<communities, calls>>
     ELSE /\ calls' = Append(calls, "filter")
          /\ \/ /\ \E cs \in CandidateLists :
                     /\ communities' = cs
                     /\ pc' = IF cs = <<>> THEN "popular" ELSE "search"
                /\ UNCHANGED <<ret, raised>>
             \/ /\ \E msg \in ExcMessages : Caught("filter", msg)
                /\ UNCHANGED communities
  /\ UNCHANGED <<task_id, user_data, profile, user_vector, vector_results, merged,
                 enriched_results, result, cached, published>>

\* lines 86-107: structural-fallback branch
Popular ==
  /\ pc = "popular"
  /\ calls' = Append(calls, "popular")
  /\ \/ \E popular \in PopularLists, ms \in 0..MaxElapsedMs :
          /\ result' = MatchResult(task_id, user_data.user_id, MatchTier.FALLBACK,
                                   FallbackMatches(popular), ms)
          /\ ret' = result'
          /\ pc' = "done"
          /\ UNCHANGED raised
     \/ /\ \E msg \in ExcMessages : Caught("popular", msg)
        /\ UNCHANGED result
  /\ UNCHANGED <<task_id, user_data, profile, user_vector, communities, vector_results,
                 merged, enriched_results, cached, published>>

\* lines 110-164: vector search, merge, diversity, tier, result construction
VectorSearch ==
  /\ pc = "search"
  /\ calls' = Append(calls, "vector_search")
  /\ \/ \E ids \in RankedIdLists, top \in TopScores, ms \in 0..MaxElapsedMs :
          /\ Len(ids) <= TopK
          /\ vector_results' = VectorMatches(ids, top)
          /\ merged' = Merge(vector_results', communities)
          /\ IF merged' = <<>>
             THEN /\ pc' = "done"
                  /\ ret' = FailurePayload(task_id, MergeFailedMessage)
                  /\ UNCHANGED <<enriched_results, result>>
             ELSE /\ enriched_results' = ApplyDiversity(merged')
                  /\ result' = MatchResult(task_id, user_data.user_id,
                                           TierOf(enriched_results'[1].match_score),
                                           FinalMatches(enriched_results'), ms)
                  /\ pc' = "publish"
                  /\ UNCHANGED ret
          /\ UNCHANGED raised
     \/ /\ \E msg \in ExcMessages : Caught("vector_search", msg)
        /\ UNCHANGED <<vector_results, merged, enriched_results, result>>
  /\ UNCHANGED <<task_id, user_data, profile, user_vector, communities, cached, published>>

\* lines 166-170
Publish ==
  /\ pc = "publish"
  /\ calls' = Append(calls, "publish")
  /\ \/ /\ published' = Append(published, <<user_data.user_id, result>>)
        /\ ret' = result
        /\ pc' = "done"
        /\ UNCHANGED raised
     \/ /\ \E msg \in ExcMessages : Caught("publish", msg)
        /\ UNCHANGED published
  /\ UNCHANGED <<task_id, user_data, profile, user_vector, communities, vector_results,
                 merged, enriched_results, result, cached>>

Next == Sanitize \/ Embed \/ CacheVector \/ FilterByLocation \/ Popular \/ VectorSearch \/ Publish

Spec == Init /\ [][Next]_vars

(* ----------------------- properties of the task ------------------------ *)
SuccessKeys == {"task_id", "user_id", "tier", "matches", "processing_time_ms"}
FailureKeys == {"task_id", "status", "error"}
MatchKeys == {"community_id", "community_name", "category", "match_score",
              "member_count", "recent_activity"}

IsSuccessPayload(r) ==
  /\ DOMAIN r = SuccessKeys
  /\ r.tier \in {"soulmate", "explorer", "fallback"}
  /\ \A k \in 1..Len(r.matches) : DOMAIN r.matches[k] = MatchKeys

IsFailurePayload(r) ==
  /\ DOMAIN r = FailureKeys
  /\ r.status = "failed"

Invoked(name) == \E k \in 1..Len(calls) : calls[k] = name
TimesInvoked(name) == Cardinality({k \in 1..Len(calls) : calls[k] = name})
Returned(name) == Invoked(name) /\ raised # name

FilterReturnedEmpty == Returned("filter") /\ communities = <<>>
CandidateIds == {communities[k].community_id : k \in 1..Len(communities)}
NoOverlap == \A k \in 1..Len(vector_results) : vector_results[k].community_id \notin CandidateIds

\* C1: one execution of process_match_task always ends by returning either
\* the success payload or the failure payload, both carrying the task's id;
\* until it has returned a step is possible, it calls at most seven
\* collaborators, and an exception of a collaborator is never let through
\* (the run that a collaborator's exception ended returned the failure payload).
C1_ReturnsOnePayload ==
  /\ pc # "done" => (ret = NoResult /\ ENABLED Next)
  /\ Len(calls) <= 7
  /\ pc = "done" => /\ IsSuccessPayload(ret) \/ IsFailurePayload(ret)
                    /\ ret.task_id = task_id
                    /\ raised # "none" => IsFailurePayload(ret)

C1_Witness ==
  /\ pc = "done"
  /\ raised = "publish"
  /\ IsFailurePayload(ret)
  /\ ret.error = "connection refused"

\* C2: a run in which only a best-effort side effect (set_user_vector or
\* publish_match_result) raised returns a success payload.
C2_SideEffectFailureSwallowed ==
  (pc = "done" /\ raised \in {"cache_vector", "publish"}) => IsSuccessPayload(ret)

\* C3: every success payload has at most 5 matches, on both branches and
\* whatever the length of the lists the collaborators returned.
C3_AtMostFiveMatches ==
  (pc = "done" /\ IsSuccessPayload(ret)) => Len(ret.matches) <= 5

\* C4 as stated: whenever filter_by_location returned an empty list the run
\* returns a success payload with tier FALLBACK and all scores 0.0, and the
\* vector ranker is never invoked.
C4_EmptyFilterAlwaysSucceeds ==
  (pc = "done" /\ FilterReturnedEmpty) =>
     /\ IsSuccessPayload(ret)
     /\ ret.tier = "fallback"
     /\ \A k \in 1..Len(ret.matches) : ret.matches[k].match_score = 0
     /\ ~Invoked("vector_search")

\* C4 amended: whenever filter_by_location returned an empty list, the vector
\* ranker is never invoked and no tier is computed from a score; the run
\* returns the failure payload if the popular lookup raised, and otherwise a
\* success payload with tier FALLBACK, one match per popular community and
\* every match_score exactly 0, whatever the embedding vector was.
C4_StructuralFallback ==
  FilterReturnedEmpty =>
     /\ ~Invoked("vector_search")
     /\ enriched_results = <<>>
     /\ pc \in {"popular", "done"}
     /\ pc = "done" =>
          IF raised = "popular"
          THEN IsFailurePayload(ret) /\ result = NoResult
          ELSE /\ IsSuccessPayload(ret)
               /\ ret.tier = "fallback"
               /\ \A k \in 1..Len(ret.matches) : ret.matches[k].match_score = 0

C4_Witness ==
  /\ pc = "done"
  /\ FilterReturnedEmpty
  /\ user_vector = <<0, 1>>
  /\ IsSuccessPayload(ret)
  /\ Len(ret.matches) = 2
  /\ ret.matches[2].member_count = 20

\* C5: on the vector-search branch the tier of the result is decided by the
\* score of the leading entry after the diversity re-rank, which is the best
\* score of the result set: soulmate iff it is above 870, fallback iff it is
\* below 550, explorer otherwise (so 870 and 550 themselves give explorer).
C5_TierFromLeadingScore ==
  (Returned("vector_search") /\ result # NoResult) =>
     LET s == enriched_results[1].match_score
     IN /\ \A k \in 1..Len(enriched_results) : enriched_results[k].match_score <= s
        /\ result.tier = "soulmate" <=> s > 870
        /\ result.tier = "fallback" <=> s < 550
        /\ result.tier = "explorer" <=> (s >= 550 /\ s <= 870)
        /\ result.tier \in {"soulmate", "fallback", "explorer"}

C5_Witness ==
  /\ Returned("vector_search")
  /\ result # NoResult
  /\ enriched_results # merged
  /\ enriched_results[1].match_score = 870
  /\ result.tier = "explorer"

\* C6: when generate_embedding raises, the run returns a failure payload with
\* the task's id, status "failed" and a non-empty error string, without tier
\* or matches, and the filter, the vector ranker and publish are not invoked.
C6_EmbeddingFailure ==
  (pc = "done" /\ raised = "embed") =>
     /\ DOMAIN ret = FailureKeys
     /\ ret.task_id = task_id
     /\ ret.status = "failed"
     /\ ret.error # ""
     /\ result = NoResult
     /\ ~Invoked("filter") /\ ~Invoked("vector_search") /\ ~Invoked("publish")

\* C7: when the candidate list is not empty and the vector ranker returned
\* no id of the candidate map (or nothing at all), the run has returned the
\* failure payload whose error is "No matching communities after merge" and
\* built or published no result; a run whose candidate list was empty never
\* returns that payload, and what it returns on success has tier FALLBACK.
C7_EmptyMergeFails ==
  /\ (Returned("vector_search") /\ communities # <<>> /\ NoOverlap) =>
        /\ pc = "done"
        /\ ret = [task_id |-> task_id, status |-> "failed",
                  error |-> "No matching communities after merge"]
        /\ result = NoResult
        /\ published = <<>>
  /\ (pc = "done" /\ FilterReturnedEmpty) =>
        /\ IsFailurePayload(ret) => ret.error # "No matching communities after merge"
        /\ IsSuccessPayload(ret) => ret.tier = "fallback"

C7_Witness ==
  /\ Returned("vector_search")
  /\ Len(communities) = 2
  /\ Len(vector_results) = 3
  /\ NoOverlap
  /\ pc = "done"

\* C9: every run that returns a success payload has invoked
\* publish_match_result exactly once, with the payload it returns.
C9_SuccessPublishedOnce ==
  (pc = "done" /\ IsSuccessPayload(ret)) =>
     /\ TimesInvoked("publish") = 1
     /\ published = <<<<user_data.user_id, ret>>>>

(* ---------------- _apply_diversity on arbitrary merged lists ----------- *)
DiversityInputs ==
  UNION {{[k \in 1..n |->
             [community_id |-> k, community_name |-> ToString(k), category |-> cats[k],
              match_score |-> 910 - ScoreStep * k, member_count |-> 10 * k,
              recent_activity |-> k]] : cats \in [1..n -> Categories]}
         : n \in 0..MaxDivLen}

InitDiversity ==
  /\ pc = "diversity_input"
  /\ task_id = "task-1"
  /\ user_data = GoodProfile
  /\ profile = NoProfile /\ user_vector = <<>> /\ communities = <<>>
  /\ vector_results = <<>>
  /\ merged \in DiversityInputs
  /\ enriched_results = <<>> /\ result = NoResult /\ ret = NoResult
  /\ calls = <<>> /\ cached = <<>> /\ published = <<>> /\ raised = "none"

Diversify ==
  /\ pc = "diversity_input"
  /\ enriched_results' = ApplyDiversity(merged)
  /\ pc' = "diversity_output"
  /\ UNCHANGED <<task_id, user_data, profile, user_vector, communities, vector_results,
                 merged, result, ret, calls, cached, published, raised>>

NextDiversity == Diversify

SpecDiversity == InitDiversity /\ [][NextDiversity]_vars

SameTopThree(l) == l[1].category = l[2].category /\ l[2].category = l[3].category
LaterDiffering(l) == {j \in 4..Len(l) : l[j].category # l[1].category}
SwapCase(l) == Len(l) >= 4 /\ SameTopThree(l) /\ LaterDiffering(l) # {}

\* C8: when the list has at least 4 entries, its first three share a
\* category and a later entry differs, _apply_diversity moves the first such
\* entry (position j) to position 2 (third place): the first two entries stay,
\* the entries between slide down by one, the entries after j stay, and the
\* new top three are not all of one category; in every other case the
\* output equals the input.
C8_DiversityOneSwap ==
  pc = "diversity_output" =>
     IF SwapCase(merged)
     THEN LET j == CHOOSE x \in LaterDiffering(merged) :
                      \A y \in LaterDiffering(merged) : x <= y
          IN /\ Len(enriched_results) = Len(merged)
             /\ enriched_results[1] = merged[1]
             /\ enriched_results[2] = merged[2]
             /\ enriched_results[3] = merged[j]
             /\ \A k \in 4..j : enriched_results[k] = merged[k - 1]
             /\ \A k \in (j + 1)..Len(merged) : enriched_results[k] = merged[k]
             /\ ~SameTopThree(enriched_results)
     ELSE enriched_results = merged

C8_Witness ==
  /\ pc = "diversity_output"
  /\ SwapCase(merged)
  /\ Len(merged) = 6
  /\ LaterDiffering(merged) = {5, 6}
  /\ merged[5].category # merged[6].category
  /\ enriched_results[3] = merged[5]

(* ---------------- merge on arbitrary ranker output and candidates ------ *)
IdSeqs(maxlen, allowRepeat) ==
  UNION {{s \in [1..n -> 1..MergeIds] :
            allowRepeat \/ \A i, j \in 1..n : i # j => s[i] # s[j]}
         : n \in 0..maxlen}

InitMerge ==
  /\ pc = "merge_input"
  /\ task_id = "task-1"
  /\ user_data = GoodProfile
  /\ profile = NoProfile /\ user_vector = <<>>
  /\ \E ids \in IdSeqs(MergeIds, FALSE) : communities = [k \in 1..Len(ids) |-> Community(ids[k])]
  /\ \E ids \in IdSeqs(MaxVec, TRUE) : vector_results = VectorMatches(ids, 900)
  /\ merged = <<>> /\ enriched_results = <<>> /\ result = NoResult /\ ret = NoResult
  /\ calls = <<>> /\ cached = <<>> /\ published = <<>> /\ raised = "none"

MergeStep ==
  /\ pc = "merge_input"
  /\ merged' = Merge(vector_results, communities)
  /\ pc' = "merge_output"
  /\ UNCHANGED <<task_id, user_data, profile, user_vector, communities, vector_results,
                 enriched_results, result, ret, calls, cached, published, raised>>

NextMerge == MergeStep

SpecMerge == InitMerge /\ [][NextMerge]_vars

InCandidates(v) == \E k \in 1..Len(communities) : communities[k].community_id = v.community_id
RecordOf(cid) == communities[CHOOSE k \in 1..Len(communities) : communities[k].community_id = cid]

\* C10: the merge yields, in the ranker's order, one entry for each entry of
\* the ranker's output whose community_id is among the candidates and none
\* for the others; each entry has the ranker's match_score and the
\* candidate record's name, category, member_count and recent_activity.
C10_MergeIsJoin ==
  pc = "merge_output" =>
     LET kept == SelectSeq(vector_results, InCandidates)
     IN /\ Len(merged) = Len(kept)
        /\ \A k \in 1..Len(kept) :
             /\ DOMAIN merged[k] = MatchKeys
             /\ merged[k].community_id = kept[k].community_id
             /\ merged[k].match_score = kept[k].match_score
             /\ merged[k].community_name = RecordOf(kept[k].community_id).community_name
             /\ merged[k].category = RecordOf(kept[k].community_id).category
             /\ merged[k].member_count = RecordOf(kept[k].community_id).member_count
             /\ merged[k].recent_activity = RecordOf(kept[k].community_id).recent_activity

C10_Witness ==
  /\ pc = "merge_output"
  /\ Len(vector_results) = 3
  /\ Len(merged) = 2
  /\ ~InCandidates(vector_results[2])
  /\ merged[2].community_id = vector_results[3].community_id
  /\ communities[1].community_id = vector_results[3].community_id

====
